---- MODULE Spec2Model ----
(***************************************************************************)
(* A model of msgmodel's OpenAI provider (msgmodel/providers/openai.py):   *)
(* one OpenAIProvider object, one query() or stream() invocation on it,    *)
(* the HTTP transport the invocation talks to, and the consumer that       *)
(* drives the generator returned by stream().                              *)
(***************************************************************************)
EXTENDS Integers, Sequences, FiniteSets, TLC

(***************************************************************************)
(* Bounds of the model.                                                    *)
(***************************************************************************)
\* The provider sends at most MaxLines lines on one streaming response.
MaxLines == 3

(***************************************************************************)
(* Python values.  A value is a record tagged with its Python type; a dict *)
(* is a function from its keys, a list a sequence.  An optional argument   *)
(* is <<>> (None) or <<x>>.                                                *)
(***************************************************************************)
PyNone == [t |-> "None"]
Num(n) == [t |-> "int", n |-> n]
Str(s) == [t |-> "str", s |-> s]
List(xs) == [t |-> "list", xs |-> xs]
Dict(f) == [t |-> "dict", f |-> f]
EmptyDict == Dict(<<>>)

IsDict(v) == v.t = "dict"
IsList(v) == v.t = "list"

\* Python truthiness, as used by `if text:` and `if content:`.
Truthy(v) ==
    CASE v.t = "None" -> FALSE
      [] v.t = "int"  -> v.n # 0
      [] v.t = "str"  -> v.s # ""
      [] v.t = "list" -> Len(v.xs) > 0
      [] v.t = "dict" -> DOMAIN v.f # {}

\* dict.get(key, default)
Get(d, key, default) == IF key \in DOMAIN d.f THEN d.f[key] ELSE default

\* The strings of the model that have "choices" as a substring.
HasChoicesSubstring(s) == s \in {"choices", "no choices"}

\* `"choices" in v`: "True", "False", or "TypeError" when v is no container.
InChoices(v) ==
    CASE v.t = "dict" -> IF "choices" \in DOMAIN v.f THEN "True" ELSE "False"
      [] v.t = "list" -> IF \E i \in 1..Len(v.xs) : v.xs[i] = Str("choices")
                         THEN "True" ELSE "False"
      [] v.t = "str"  -> IF HasChoicesSubstring(v.s) THEN "True" ELSE "False"
      [] OTHER        -> "TypeError"

\* `"choices" in v and isinstance(v["choices"], list)`: v["choices"] raises
\* TypeError on a str or a list, which take only integer indices.
ChoicesIsList(v) ==
    CASE InChoices(v) = "TypeError" -> "TypeError"
      [] InChoices(v) = "False"     -> "False"
      [] OTHER -> IF ~IsDict(v) THEN "TypeError"
                  ELSE IF IsList(v.f["choices"]) THEN "True" ELSE "False"

(***************************************************************************)
(* json.loads, on the JSON texts of the model.                             *)
(***************************************************************************)
Parsed(v) == [ok |-> TRUE, v |-> v]
JSONDecodeError == [ok |-> FALSE]

Delta(c) == Dict([delta |-> Dict([content |-> c])])
Message(c) == Dict([message |-> Dict([content |-> c])])

json_loads(data) ==
    CASE data = "null" -> Parsed(PyNone)
      [] data = "5" -> Parsed(Num(5))
      [] data = "\"choices\"" -> Parsed(Str("choices"))
      [] data = "[]" -> Parsed(List(<<>>))
      [] data = "{}" -> Parsed(EmptyDict)
      [] data = "{\"choices\":7}" -> Parsed(Dict([choices |-> Num(7)]))
      [] data = "{\"choices\":[]}" -> Parsed(Dict([choices |-> List(<<>>)]))
      \* streaming records
      [] data = "{\"choices\":[{\"delta\":{\"content\":\"a\"}}]}" ->
            Parsed(Dict([choices |-> List(<<Delta(Str("a"))>>)]))
      [] data = "{\"choices\":[{\"delta\":{\"content\":\"b\"}},{\"delta\":{\"content\":\"c\"}}]}" ->
            Parsed(Dict([choices |-> List(<<Delta(Str("b")), Delta(Str("c"))>>)]))
      [] data = "{\"choices\":[3,{\"delta\":5},{},{\"delta\":{}},{\"delta\":{\"content\":\"\"}},{\"delta\":{\"content\":null}},{\"delta\":{\"content\":\"d\"}}]}" ->
            Parsed(Dict([choices |-> List(<<Num(3), Dict([delta |-> Num(5)]),
                EmptyDict, Dict([delta |-> EmptyDict]), Delta(Str("")),
                Delta(PyNone), Delta(Str("d"))>>)]))
      [] data = "{\"choices\":[{\"delta\":{\"content\":7}}]}" ->
            Parsed(Dict([choices |-> List(<<Delta(Num(7))>>)]))
      \* complete responses
      [] data = "{\"choices\":[{\"message\":{\"content\":\"hi\"}}]}" ->
            Parsed(Dict([choices |-> List(<<Message(Str("hi"))>>)]))
      [] data = "{\"choices\":[3,{\"message\":5},{},{\"message\":{}},{\"message\":{\"content\":\"\"}},{\"message\":{\"content\":null}},{\"message\":{\"content\":\"yo\"}},{\"message\":{\"content\":\"no\"}}]}" ->
            Parsed(Dict([choices |-> List(<<Num(3), Dict([message |-> Num(5)]),
                EmptyDict, Dict([message |-> EmptyDict]), Message(Str("")),
                Message(PyNone), Message(Str("yo")), Message(Str("no"))>>)]))
      [] data = "{\"choices\":[{\"message\":{\"content\":7}}]}" ->
            Parsed(Dict([choices |-> List(<<Message(Num(7))>>)]))
      [] OTHER -> JSONDecodeError

(***************************************************************************)
(* How a call ends: a returned value or a raised exception.                *)
(***************************************************************************)
Running == [kind |-> "running"]
Return(v) == [kind |-> "return", value |-> v]
\* An exception with the keyword arguments it was constructed with.
Raise(exc, status_code, response_text) ==
    [kind |-> "raise", exc |-> exc, status_code |-> status_code,
     response_text |-> response_text]

(***************************************************************************)
(* OpenAIProvider.extract_text                                             *)
(***************************************************************************)
\* The content the loop over the choices returns, from choice i on; Str("")
\* when no choice has a truthy one.
RECURSIVE FirstContent(_, _)
FirstContent(choices, i) ==
    IF i > Len(choices) THEN Str("")
    ELSE LET choice == choices[i]
             message == IF IsDict(choice) THEN Get(choice, "message", EmptyDict)
                        ELSE PyNone
             content == IF IsDict(message) THEN Get(message, "content", Str(""))
                        ELSE PyNone
         IN  IF IsDict(choice) /\ IsDict(message) /\ Truthy(content)
             THEN content
             ELSE FirstContent(choices, i + 1)

extract_text(response) ==
    CASE ChoicesIsList(response) = "TypeError" -> Raise("TypeError", <<>>, <<>>)
      [] ChoicesIsList(response) = "True" ->
            Return(FirstContent(response.f["choices"].xs, 1))
      [] OTHER -> Return(Str(""))

(***************************************************************************)
(* Text built by an f-string is the sequence of its parts.                 *)
(***************************************************************************)
MIME_TYPE_JSON == <<"application/json">>
OPENAI_URL == <<"OPENAI_URL">>

\* A MIME type is <<category, subtype>>; its text is category/subtype.
MimeText(mime_type) == <<mime_type[1], "/", mime_type[2]>>
\* mime_type.startswith(prefix + "/")
MimeStartsWith(mime_type, category) == mime_type[1] = category

\* _build_headers without the zero-data-retention header.
HeadersWithoutNoStore(key) ==
    [h \in {"Content-Type", "Authorization"} |->
        CASE h = "Content-Type" -> <<"application/json">>
          [] h = "Authorization" -> <<"Bearer ", key>>]

(***************************************************************************)
(* OpenAIProvider._build_headers                                           *)
(***************************************************************************)
_build_headers(key) ==
    [h \in {"Content-Type", "Authorization", "X-OpenAI-No-Store"} |->
        CASE h = "Content-Type" -> MIME_TYPE_JSON
          [] h = "Authorization" -> <<"Bearer ", key>>
          [] h = "X-OpenAI-No-Store" -> <<"true">>]

(***************************************************************************)
(* base64.b64decode(...).decode("utf-8", errors="ignore"), on the base64   *)
(* texts of the model: the decoded text, or binascii.Error.                *)
(***************************************************************************)
B64DecodeUtf8(encoded_data) ==
    CASE encoded_data = "aGVsbG8=" -> [ok |-> TRUE, text |-> "hello"]
      [] encoded_data = "ICAK"     -> [ok |-> TRUE, text |-> "  \n"]
      [] encoded_data = ""         -> [ok |-> TRUE, text |-> ""]
      \* b"\xff": the undecodable byte is ignored
      [] encoded_data = "/w=="     -> [ok |-> TRUE, text |-> ""]
      \* incorrect padding
      [] OTHER                     -> [ok |-> FALSE, text |-> ""]

\* A strip() that strips nothing.
NoStrip(text) == text

\* str.strip() of the decoded texts of the model
Strip(text) == IF text \in {"", "  \n"} THEN "" ELSE text

(***************************************************************************)
(* OpenAIProvider._build_content                                           *)
(***************************************************************************)
TextBlock(parts) == [type |-> "text", text |-> parts]

\* An image attachment inlined as text.
ImageAsText(url) == [type |-> "text", text |-> url]

ImageBlock(url) == [type |-> "image_url", image_url |-> [url |-> url]]

AttachmentBlocks(fd) ==
    LET mime_type == fd["mime_type"]
        encoded_data == IF "data" \in DOMAIN fd THEN fd["data"] ELSE ""
        filename == IF "filename" \in DOMAIN fd THEN fd["filename"] ELSE "input.bin"
        decoded == B64DecodeUtf8(encoded_data)
        decoded_text == IF decoded.ok THEN decoded.text ELSE ""
    IN  CASE MimeStartsWith(mime_type, "image") ->
               <<ImageBlock(<<"data:">> \o MimeText(mime_type)
                            \o <<";base64,", encoded_data>>)>>
          [] MimeStartsWith(mime_type, "text") ->
               IF Strip(decoded_text) # ""
               THEN <<TextBlock(<<"(Contents of ", filename, "):\n\n", decoded_text>>)>>
               ELSE <<>>
          [] OTHER ->
               <<TextBlock(<<"[Note: A file named '", filename, "' with MIME type '">>
                           \o MimeText(mime_type)
                           \o <<"' was provided. You may not be able to read it directly, but you can still respond based on the description and prompt.]">>)>>

\* _build_content with the prompt block put first.
PromptFirst(prompt, file_data) ==
    <<TextBlock(<<prompt>>)>>
    \o (IF file_data # <<>> /\ DOMAIN file_data[1] # {}
        THEN AttachmentBlocks(file_data[1]) ELSE <<>>)

\* file_data is <<>> (None) or <<descriptor>>; an empty descriptor is falsy.
_build_content(prompt, file_data) ==
    (IF file_data # <<>> /\ DOMAIN file_data[1] # {}
     THEN AttachmentBlocks(file_data[1]) ELSE <<>>)
    \o <<TextBlock(<<prompt>>)>>

(***************************************************************************)
(* OpenAIProvider._build_payload                                           *)
(***************************************************************************)
BasePayload(cfg, messages) ==
    [k \in {"model", "messages", "max_tokens", "temperature", "top_p"} |->
        CASE k = "model" -> cfg.model
          [] k = "messages" -> messages
          [] k = "max_tokens" -> cfg.max_tokens
          [] k = "temperature" -> cfg.temperature
          [] k = "top_p" -> cfg.top_p]

_build_payload(cfg, prompt, system_instruction, file_data, stream) ==
    LET content == _build_content(prompt, file_data)
        messages ==
            (IF system_instruction # <<>> /\ system_instruction[1] # ""
             THEN <<[role |-> "system", content |-> system_instruction[1]]>>
             ELSE <<>>)
            \o <<[role |-> "user", content |-> content]>>
        payload == BasePayload(cfg, messages)
    IN  IF stream THEN ("stream" :> TRUE) @@ payload ELSE payload

(***************************************************************************)
(* The inputs of the model.                                                *)
(***************************************************************************)
ApiKeys == {"sk-A", "sk-B"}
Configs ==
    {[model |-> m, max_tokens |-> 1000, temperature |-> "1.0", top_p |-> "1.0"] :
        m \in {"gpt-4o", "gpt-3.5-turbo"}}
Prompts == {"hi", ""}
SystemInstructions == {<<>>, <<"">>, <<"be brief">>}
Descriptor(mime_type, filename, data) ==
    [k \in {"mime_type", "filename", "data"} |->
        CASE k = "mime_type" -> mime_type
          [] k = "filename" -> filename
          [] k = "data" -> data]
FileDatas ==
    {<<>>,
     <<Descriptor(<<"image", "png">>, "pic.png", "iVBORw0KGgo=")>>,
     <<Descriptor(<<"text", "plain">>, "notes.txt", "aGVsbG8=")>>,
     <<Descriptor(<<"text", "plain">>, "blank.txt", "ICAK")>>,
     <<Descriptor(<<"text", "csv">>, "bad.csv", "abc")>>,
     <<Descriptor(<<"application", "pdf">>, "doc.pdf", "JVBERi0=")>>}

\* HTTP statuses and bodies a provider answers with.
Statuses == {200, 400, 429, 500}
Bodies ==
    {"null", "5", "\"choices\"", "[]", "{}", "{oops", "{\"choices\":7}",
     "{\"choices\":[]}",
     "{\"choices\":[{\"message\":{\"content\":\"hi\"}}]}",
     "{\"choices\":[3,{\"message\":5},{},{\"message\":{}},{\"message\":{\"content\":\"\"}},{\"message\":{\"content\":null}},{\"message\":{\"content\":\"yo\"}},{\"message\":{\"content\":\"no\"}}]}",
     "{\"choices\":[{\"message\":{\"content\":7}}]}"}

\* A line of the streaming response as iter_lines() hands it over: its first
\* six characters, the rest, and whether its bytes are valid UTF-8.
Line(head, tail) == [head |-> head, tail |-> tail, utf8 |-> TRUE]
DataLine(data) == Line("data: ", data)
DoneLine == DataLine("[DONE]")
Lines ==
    {Line("", ""),
     [head |-> "\\xff", tail |-> "", utf8 |-> FALSE],
     Line(": ping", ""),
     DoneLine,
     DataLine("{oops"),
     DataLine("5"),
     DataLine("{}"),
     DataLine("{\"choices\":7}"),
     DataLine("{\"choices\":[{\"delta\":{\"content\":\"a\"}}]}"),
     DataLine("{\"choices\":[{\"delta\":{\"content\":\"b\"}},{\"delta\":{\"content\":\"c\"}}]}"),
     DataLine("{\"choices\":[3,{\"delta\":5},{},{\"delta\":{}},{\"delta\":{\"content\":\"\"}},{\"delta\":{\"content\":null}},{\"delta\":{\"content\":\"d\"}}]}"),
     DataLine("{\"choices\":[{\"delta\":{\"content\":7}}]}")}

(***************************************************************************)
(* The state.                                                              *)
(***************************************************************************)
VARIABLES
    api_key,          \* self.api_key
    config,           \* self.config
    entry,            \* the entry point invoked: "none", "query", "stream"
    pc,               \* where the invocation is: "idle", "posting", "loop"
                      \* (stream() about to take the next line), "yielded"
                      \* (the generator suspended at its yield), "done"
    http,             \* the request in flight: <<>> or <<request>>
    response,         \* the response of requests.post: <<>> or <<response>>
    conn,             \* the response's connection: "none", "open",
                      \* "released" (body read to its end), "closed"
    peer,             \* the provider on a streaming response: "live", "silent"
    received,         \* the lines iter_lines() has handed to stream()
    ci,               \* the choice of the current record whose text was yielded
    chunks_received,  \* stream()'s counter
    yielded,          \* the chunks delivered to the consumer
    logged,           \* whether stream() logged that no chunk was extracted
    outcome,          \* how the invocation ended
    text,             \* what extract_text made of query()'s return value
    args,             \* the arguments of the invocation while its request is
                      \* built and in flight: <<>> or <<arguments>>
    other,            \* a second invocation, of query(), on the same provider
    mime,             \* a MIME resolution: its inputs and its result
    sig               \* a request signature: its inputs and its results

vars == <<api_key, config, entry, pc, http, response, conn, peer, received, ci,
          chunks_received, yielded, logged, outcome, text, args, other,
          mime, sig>>

\* What the invocation modelled in full never touches.
aux == <<other, mime, sig>>

\* The second invocation before it starts.
OtherIdle == [pc |-> "idle", args |-> <<>>, http |-> <<>>, outcome |-> Running]

\* OpenAIProvider.__init__, and no invocation yet
ProviderInit ==
    /\ api_key \in ApiKeys
    /\ config \in Configs
    /\ entry = "none"
    /\ pc = "idle"
    /\ http = <<>>
    /\ response = <<>>
    /\ conn = "none"
    /\ peer = "live"
    /\ received = <<>>
    /\ ci = 0
    /\ chunks_received = 0
    /\ yielded = <<>>
    /\ logged = FALSE
    /\ outcome = Running
    /\ text = Running
    /\ args = <<>>
    /\ other = OtherIdle

Init ==
    /\ ProviderInit
    /\ mime = <<>>
    /\ sig = <<>>

\* The arguments of query() and stream().
Arguments(prompt, system_instruction, file_data) ==
    [prompt |-> prompt, system_instruction |-> system_instruction,
     file_data |-> file_data]

Request(headers, payload, stream) ==
    [url |-> OPENAI_URL, headers |-> headers, data |-> payload, stream |-> stream]

\* A response: its status_code and its text; a streamed body is read line by line.
Response(status, body) == [status_code |-> status, text |-> body]

\* requests.Response.ok
ResponseOk(status) == status < 400

(***************************************************************************)
(* query()                                                                 *)
(***************************************************************************)
\* query() up to its requests.post
QueryCall(prompt, system_instruction, file_data) ==
    /\ pc = "idle"
    /\ entry' = "query"
    /\ http' = <<Request(_build_headers(api_key),
                         _build_payload(config, prompt, system_instruction, file_data, FALSE),
                         FALSE)>>
    /\ pc' = "posting"
    /\ args' = <<Arguments(prompt, system_instruction, file_data)>>
    /\ UNCHANGED <<aux, api_key, config, response, conn, peer, received, ci, chunks_received,
                   yielded, logged, outcome, text>>

\* What a failed initial request raises.
RequestFailed == Raise("APIError", <<>>, <<>>)
\* A status error raised with its message alone.
StatusErrorMessageOnly(status, body) == Raise("APIError", <<>>, <<>>)

\* What a non-success status raises.
StatusError(status, body) == Raise("APIError", <<status>>, <<body>>)

\* requests.post raises a RequestException
PostFails ==
    /\ pc = "posting"
    /\ http' = <<>>
    /\ outcome' = RequestFailed
    /\ pc' = "done"
    /\ args' = <<>>
    /\ UNCHANGED <<aux, api_key, config, response, entry, conn, peer, received, ci,
                   chunks_received, yielded, logged, text>>

\* response.json()
ResponseJson(body) ==
    IF json_loads(body).ok THEN Return(json_loads(body).v)
    ELSE Raise("JSONDecodeError", <<>>, <<>>)

\* query() from the response on: the body was read whole by requests.post
QueryResponse(status, body) ==
    /\ pc = "posting"
    /\ entry = "query"
    /\ http' = <<>>
    /\ response' = <<Response(status, body)>>
    /\ conn' = "released"
    /\ outcome' = IF ~ResponseOk(status) THEN StatusError(status, body)
                  ELSE ResponseJson(body)
    /\ pc' = "done"
    /\ args' = <<>>
    /\ UNCHANGED <<aux, api_key, config, entry, peer, received, ci, chunks_received,
                   yielded, logged, text>>

\* extract_text applied to what query() returned
ExtractText ==
    /\ entry = "query"
    /\ pc = "done"
    /\ outcome.kind = "return"
    /\ text = Running
    /\ text' = extract_text(outcome.value)
    /\ UNCHANGED <<aux, args, api_key, config, response, entry, pc, http, conn, peer, received, ci,
                   chunks_received, yielded, logged, outcome>>

(***************************************************************************)
(* stream()                                                                *)
(***************************************************************************)
\* stream() up to its requests.post (the consumer's first next())
StreamCall(prompt, system_instruction, file_data) ==
    /\ pc = "idle"
    /\ entry' = "stream"
    /\ http' = <<Request(_build_headers(api_key),
                         _build_payload(config, prompt, system_instruction, file_data, TRUE),
                         TRUE)>>
    /\ pc' = "posting"
    /\ args' = <<Arguments(prompt, system_instruction, file_data)>>
    /\ UNCHANGED <<aux, api_key, config, response, conn, peer, received, ci, chunks_received,
                   yielded, logged, outcome, text>>

\* stream() from the response to the head of its loop; response.text reads
\* an error body to its end
StreamResponse(status, body) ==
    /\ pc = "posting"
    /\ entry = "stream"
    /\ http' = <<>>
    /\ response' = <<Response(status, IF ResponseOk(status) THEN "(streamed)" ELSE body)>>
    /\ IF ~ResponseOk(status)
       THEN /\ conn' = "released"
            /\ outcome' = StatusError(status, body)
            /\ pc' = "done"
       ELSE /\ conn' = "open"
            /\ outcome' = outcome
            /\ pc' = "loop"
    /\ chunks_received' = 0
    /\ args' = <<>>
    /\ UNCHANGED <<aux, api_key, config, entry, peer, received, ci, yielded, logged, text>>

\* Whether the loop over the choices yields at this choice, and what.
ChoiceDelta(choice) == Get(choice, "delta", EmptyDict)
ChoiceText(choice) == Get(ChoiceDelta(choice), "content", Str(""))
Yields(choice) ==
    /\ IsDict(choice)
    /\ IsDict(ChoiceDelta(choice))
    /\ Truthy(ChoiceText(choice))

\* The first choice from i on at which the loop yields; 0 when there is none.
RECURSIVE NextYield(_, _)
NextYield(choices, i) ==
    IF i > Len(choices) THEN 0
    ELSE IF Yields(choices[i]) THEN i
    ELSE NextYield(choices, i + 1)

\* What the loop body does next: take the next line ("loop"), yield the text
\* of choice j ("yield"), leave the loop ("break"), or raise ("error").
Step(next, j) == [next |-> next, j |-> j]

\* The loop over the choices of a record, from choice i on.
ScanChoices(choices, i) ==
    IF NextYield(choices, i) = 0 THEN Step("loop", 0)
    ELSE Step("yield", NextYield(choices, i))

\* `if line:` on the line's bytes
LineTruthy(line) == line.head # "" \/ line.tail # ""

\* A loop body that does not know the end-of-stream marker: 'data: [DONE]'
\* is one more record that is not JSON.
ProcessLineWithoutDone(line) ==
    CASE ~LineTruthy(line) -> Step("loop", 0)
      [] ~line.utf8 -> Step("error", 0)
      [] line.head # "data: " -> Step("loop", 0)
      [] ~json_loads(line.tail).ok -> Step("loop", 0)
      [] ChoicesIsList(json_loads(line.tail).v) = "TypeError" -> Step("error", 0)
      [] ChoicesIsList(json_loads(line.tail).v) = "False" -> Step("loop", 0)
      [] OTHER -> ScanChoices(json_loads(line.tail).v.f["choices"].xs, 1)

\* The loop body on one line, up to its first yield.
ProcessLine(line) ==
    CASE ~LineTruthy(line) -> Step("loop", 0)
      [] ~line.utf8 -> Step("error", 0)
      [] line.head # "data: " -> Step("loop", 0)
      [] line.tail = "[DONE]" -> Step("break", 0)
      [] ~json_loads(line.tail).ok -> Step("loop", 0)
      [] ChoicesIsList(json_loads(line.tail).v) = "TypeError" -> Step("error", 0)
      [] ChoicesIsList(json_loads(line.tail).v) = "False" -> Step("loop", 0)
      [] OTHER -> ScanChoices(json_loads(line.tail).v.f["choices"].xs, 1)

\* The choices of the record a line carries.
ChoicesOf(line) == json_loads(line.tail).v.f["choices"].xs

\* A failure inside the loop re-raised as the kind of a failed request.
InterruptedAsAPIError == Raise("APIError", <<>>, <<>>)

\* What `except Exception` turns a failure inside the loop into.
StreamInterrupted == Raise("StreamingError", <<>>, <<>>)

\* The generator running on from a step of the loop body, on record `line`.
Run(step, line) ==
    CASE step.next = "loop" ->
            /\ pc' = "loop"
            /\ ci' = 0
            /\ UNCHANGED <<chunks_received, yielded, logged, outcome>>
      [] step.next = "yield" ->
            /\ chunks_received' = chunks_received + 1
            /\ yielded' = Append(yielded, ChoiceText(ChoicesOf(line)[step.j]))
            /\ ci' = step.j
            /\ pc' = "yielded"
            /\ UNCHANGED <<logged, outcome>>
      [] step.next = "break" ->
            /\ logged' = (chunks_received = 0)
            /\ outcome' = Return(PyNone)
            /\ pc' = "done"
            /\ ci' = 0
            /\ UNCHANGED <<chunks_received, yielded>>
      [] step.next = "error" ->
            /\ outcome' = StreamInterrupted
            /\ pc' = "done"
            /\ ci' = 0
            /\ UNCHANGED <<chunks_received, yielded, logged>>

\* iter_lines() hands over the next line and the loop body runs on it
ReadLine(line) ==
    /\ pc = "loop"
    /\ peer = "live"
    /\ Len(received) < MaxLines
    /\ received' = Append(received, line)
    /\ Run(ProcessLine(line), line)
    /\ UNCHANGED <<aux, args, api_key, config, response, entry, http, conn, peer, text>>

\* iter_lines() is exhausted: the body was read to its end
EndOfLines ==
    /\ pc = "loop"
    /\ peer = "live"
    /\ conn' = "released"
    /\ Run(Step("break", 0), <<>>)
    /\ UNCHANGED <<aux, args, api_key, config, response, entry, http, peer, received, text>>

\* iter_lines() raises: the transport failed, which ends the connection
ReadFails ==
    /\ pc = "loop"
    /\ peer = "live"
    /\ conn' = "closed"
    /\ Run(Step("error", 0), <<>>)
    /\ UNCHANGED <<aux, args, api_key, config, response, entry, http, peer, received, text>>

\* the provider stops sending while stream() waits in iter_lines()
GoSilent ==
    /\ pc = "loop"
    /\ peer = "live"
    /\ peer' = "silent"
    /\ UNCHANGED <<aux, args, api_key, config, response, entry, pc, http, conn, received, ci,
                   chunks_received, yielded, logged, outcome, text>>

\* the consumer asks for the next chunk: the generator runs on after its yield
Resume ==
    /\ pc = "yielded"
    /\ Run(ScanChoices(ChoicesOf(received[Len(received)]), ci + 1),
           received[Len(received)])
    /\ UNCHANGED <<aux, args, api_key, config, response, entry, http, conn, peer, received, text>>

\* What the generator ends as when it is closed at its yield.
Closed == [kind |-> "closed"]

\* the consumer stops: GeneratorExit is raised at the yield, and
\* `except Exception` does not catch it
ConsumerStop ==
    /\ pc = "yielded"
    /\ outcome' = Closed
    /\ pc' = "done"
    /\ UNCHANGED <<aux, args, api_key, config, response, entry, http, conn, peer, received, ci,
                   chunks_received, yielded, logged, text>>

Next ==
    \/ \E p \in Prompts, s \in SystemInstructions, f \in FileDatas :
          QueryCall(p, s, f) \/ StreamCall(p, s, f)
    \/ PostFails
    \/ \E st \in Statuses, b \in Bodies : QueryResponse(st, b) \/ StreamResponse(st, b)
    \/ ExtractText
    \/ \E l \in Lines : ReadLine(l)
    \/ EndOfLines
    \/ ReadFails
    \/ GoSilent
    \/ Resume
    \/ ConsumerStop

Spec == Init /\ [][Next]_vars

(***************************************************************************)
(* Properties.                                                             *)
(***************************************************************************)
\* The invocation has ended.
Done == pc = "done"
\* The invocation ended by raising exception kind exc.
Raised(exc) == outcome.kind = "raise" /\ outcome.exc = exc
\* The response's connection is still held open by the invocation.
ConnectionLeftOpen == conn = "open"

\* C1: when the consumer stops after chunk N of a stream that has more to
\* deliver, exactly the N chunks yielded so far were delivered (stream()'s
\* counter agrees), the generator ended without an error, and the transport
\* connection is closed.
C1_ConsumerStopClosesConnection ==
    (entry = "stream" /\ outcome.kind = "closed") =>
        /\ Done
        /\ Len(yielded) = chunks_received
        /\ Len(yielded) >= 1
        /\ ~ConnectionLeftOpen

\* C2: a streaming call never blocks forever on a silent connection: once the
\* provider has gone silent, the call has either ended with TimeoutError or
\* still has a step to take (the expiry of its idle timer).
C2_SilentConnectionTimesOut ==
    (entry = "stream" /\ peer = "silent") =>
        \/ (Done /\ Raised("TimeoutError"))
        \/ ENABLED Next

\* C3: no terminal state of a streaming call that got a response leaves the
\* response's connection open.
C3_ConnectionClosedOnEveryExit ==
    (entry = "stream" /\ Done /\ response # <<>>) => ~ConnectionLeftOpen

\* A choice that carries a non-empty text delta at delta.content.
IsTextDelta(choice) ==
    /\ choice.t = "dict"
    /\ "delta" \in DOMAIN choice.f
    /\ choice.f["delta"].t = "dict"
    /\ "content" \in DOMAIN choice.f["delta"].f
    /\ choice.f["delta"].f["content"].t = "str"
    /\ choice.f["delta"].f["content"].s # ""

\* Whether a line is a 'data: ' record holding a mapping with a choices list.
IsChoicesRecord(line) ==
    /\ line.utf8
    /\ line.head = "data: "
    /\ json_loads(line.tail).ok
    /\ json_loads(line.tail).v.t = "dict"
    /\ "choices" \in DOMAIN json_loads(line.tail).v.f
    /\ json_loads(line.tail).v.f["choices"].t = "list"

\* The non-empty text deltas of a sequence of choices, in order.
RECURSIVE TextDeltas(_)
TextDeltas(choices) ==
    IF choices = <<>> THEN <<>>
    ELSE (IF IsTextDelta(Head(choices))
          THEN <<Head(choices).f["delta"].f["content"]>> ELSE <<>>)
         \o TextDeltas(Tail(choices))

\* The non-empty text deltas of the records among a sequence of lines, in order.
RECURSIVE LinesTextDeltas(_)
LinesTextDeltas(lines) ==
    IF lines = <<>> THEN <<>>
    ELSE (IF IsChoicesRecord(Head(lines))
          THEN TextDeltas(json_loads(Head(lines).tail).v.f["choices"].xs)
          ELSE <<>>)
         \o LinesTextDeltas(Tail(lines))

IsPrefix(a, b) == Len(a) <= Len(b) /\ a = SubSeq(b, 1, Len(a))

\* C4: the chunks yielded are, in order, the non-empty text deltas of the
\* records received: always a prefix of them, and all of them whenever
\* stream() is between two lines or has ended of its own accord.
C4_YieldedAreTheTextDeltas ==
    entry = "stream" =>
        /\ IsPrefix(yielded, LinesTextDeltas(received))
        /\ (pc = "loop" \/ (Done /\ outcome.kind # "closed"))
              => yielded = LinesTextDeltas(received)

\* C5: a transport failure while stream() reads the response (the step that
\* ends the open connection) adds no chunk to the k delivered, ends the call
\* with StreamingError, which is not the kind a failed initial request raises,
\* and no chunk follows once the call has ended.
C5_MidStreamFailureIsStreamingError ==
    [][/\ (entry = "stream" /\ conn = "open" /\ conn' = "closed") =>
            /\ yielded' = yielded
            /\ pc' = "done"
            /\ outcome'.kind = "raise"
            /\ outcome'.exc = "StreamingError"
            /\ outcome'.exc # RequestFailed.exc
       /\ (entry = "stream" /\ Done) => yielded' = yielded]_vars

\* C5 witness: the transport failed after a chunk had been delivered.
C5_Witness ==
    /\ entry = "stream"
    /\ conn = "closed"
    /\ Len(yielded) >= 1
    /\ Raised("StreamingError")

\* C6: every request handed to the transport, by query() or by stream(),
\* carries the header X-OpenAI-No-Store with the value true.
C6_NoStoreHeaderOnEveryRequest ==
    \A i \in 1..Len(http) :
        /\ "X-OpenAI-No-Store" \in DOMAIN http[i].headers
        /\ http[i].headers["X-OpenAI-No-Store"] = <<"true">>

\* C6 witness: a streaming request with a system message and an attachment
\* block is in flight.
C6_Witness ==
    /\ entry = "stream"
    /\ http # <<>>
    /\ http[1].stream
    /\ Len(http[1].data["messages"]) = 2
    /\ Len(http[1].data["messages"][2].content) = 2

\* C7: a failed initial request ends the call with an error kind that differs
\* from the kind raised for a non-success status.
C7_TransportErrorKindDistinct ==
    (Done /\ response = <<>> /\ outcome.kind = "raise") =>
        \A st \in Statuses, b \in Bodies : outcome.exc # StatusError(st, b).exc

\* A status of the client-error or server-error class.
NonSuccess(status) == status >= 400

TokenLimitParameter(model) ==
    IF model = "gpt-4o" THEN "max_completion_tokens" ELSE "max_tokens"

\* C9: the payload of every request carries the configured token limit under
\* the parameter name of the configured model's family, and under no other.
C9_TokenLimitParameterName ==
    \A i \in 1..Len(http) :
        LET payload == http[i].data
        IN  /\ TokenLimitParameter(payload["model"]) \in DOMAIN payload
            /\ payload[TokenLimitParameter(payload["model"])] = config.max_tokens
            /\ {"max_tokens", "max_completion_tokens"} \cap DOMAIN payload
                  = {TokenLimitParameter(payload["model"])}

\* A choice whose message holds a non-empty text content.
HasTextContent(choice) ==
    /\ choice.t = "dict"
    /\ "message" \in DOMAIN choice.f
    /\ choice.f["message"].t = "dict"
    /\ "content" \in DOMAIN choice.f["message"].f
    /\ choice.f["message"].f["content"].t = "str"
    /\ choice.f["message"].f["content"].s # ""

\* The text content of the first choice that has a non-empty one, else "".
RECURSIVE FirstText(_)
FirstText(choices) ==
    IF choices = <<>> THEN Str("")
    ELSE IF HasTextContent(Head(choices))
         THEN Head(choices).f["message"].f["content"]
         ELSE FirstText(Tail(choices))

\* The text of a raw response: "" unless it is a mapping with a choices list.
ResponseText(raw) ==
    IF raw.t = "dict" /\ "choices" \in DOMAIN raw.f /\ raw.f["choices"].t = "list"
    THEN FirstText(raw.f["choices"].xs)
    ELSE Str("")

\* C10: extract_text never raises: on every raw response it returns the text
\* content of the first choice that has a non-empty one, and the empty string
\* when there is none or the response is malformed.
C10_ExtractTextTotal ==
    (entry = "query" /\ text # Running) =>
        /\ text.kind = "return"
        /\ text.value = ResponseText(outcome.value)

(***************************************************************************)
(* The content list of the user message.                                   *)
(***************************************************************************)
\* A request is in flight, and the arguments it was built from are known.
InFlight == http # <<>> /\ args # <<>>

\* The content list of the user message of the request in flight.
UserContent ==
    LET messages == http[1].data["messages"]
    IN  messages[Len(messages)].content

\* The blocks of the content list before its last one.
BlocksBeforeLast == SubSeq(UserContent, 1, Len(UserContent) - 1)

\* The attachment of the request in flight has a MIME type of this category.
AttachmentOf(category) ==
    /\ InFlight
    /\ args[1].file_data # <<>>
    /\ args[1].file_data[1]["mime_type"][1] = category

\* C11: for every prompt and every optional attachment, the content list of
\* the user message ends with the text block holding the prompt, after any
\* attachment-derived block, and that block appears exactly once.
C11_PromptBlockIsLast ==
    InFlight =>
        LET content == UserContent
            prompt_block == [type |-> "text", text |-> <<args[1].prompt>>]
        IN  /\ Len(content) >= 1
            /\ content[Len(content)] = prompt_block
            /\ \A i \in 1..(Len(content) - 1) : content[i] # prompt_block

\* A request with an attachment-derived block before the prompt block.
C11_Witness ==
    /\ InFlight
    /\ args[1].file_data # <<>>
    /\ Len(UserContent) = 2
    /\ UserContent[2] = [type |-> "text", text |-> <<args[1].prompt>>]

\* The decoded text is empty or only whitespace.
OnlyWhitespace(decoded_text) == decoded_text \in {"", "  \n"}

\* C12: a text/* attachment whose base64 data decodes to text that is not only
\* whitespace gives the one text block "(Contents of <filename>):\n\n<decoded
\* text>"; when decoding fails, or the decoded text is empty or only
\* whitespace, no block at all is emitted for the attachment.
C12_TextAttachmentInlinedOrOmitted ==
    AttachmentOf("text") =>
        LET fd == args[1].file_data[1]
            decoded == B64DecodeUtf8(fd["data"])
        IN  IF decoded.ok /\ ~OnlyWhitespace(decoded.text)
            THEN BlocksBeforeLast =
                    <<[type |-> "text",
                       text |-> <<"(Contents of ", fd["filename"], "):\n\n",
                                  decoded.text>>]>>
            ELSE BlocksBeforeLast = <<>>

\* A text attachment that decodes to whitespace only, and no block for it.
C12_Witness ==
    /\ AttachmentOf("text")
    /\ B64DecodeUtf8(args[1].file_data[1]["data"]).ok
    /\ B64DecodeUtf8(args[1].file_data[1]["data"]).text = "  \n"
    /\ Len(UserContent) = 1

\* C13: an image/* attachment gives exactly one image_url block whose URL is
\* "data:<mime>;base64,<data>" with the descriptor's mime_type and base64 data
\* unchanged, and no text block is derived from the attachment.
C13_ImageAttachmentIsDataUri ==
    AttachmentOf("image") =>
        LET fd == args[1].file_data[1]
        IN  BlocksBeforeLast =
                <<[type |-> "image_url",
                   image_url |->
                       [url |-> <<"data:", fd["mime_type"][1], "/",
                                  fd["mime_type"][2], ";base64,", fd["data"]>>]]>>

\* An image attachment embedded in the request in flight.
C13_Witness ==
    /\ AttachmentOf("image")
    /\ Len(UserContent) = 2
    /\ UserContent[1].type = "image_url"

(***************************************************************************)
(* Malformed records and the end of a stream.                              *)
(***************************************************************************)
\* A line that cannot be decoded as text, or a 'data: ' record other than the
\* end-of-stream marker that is not valid JSON or is JSON without a choices
\* list.
Malformed(line) ==
    \/ ~line.utf8
    \/ /\ line.head = "data: "
       /\ line.tail # "[DONE]"
       /\ ~IsChoicesRecord(line)

\* C17: a malformed or undecodable record never aborts a stream: once such a
\* line was received on a connection that is still open, stream() has skipped
\* it and is at the head of its loop for the next line, with no error raised.
C17_MalformedRecordNeverAborts ==
    (/\ entry = "stream"
     /\ received # <<>>
     /\ Malformed(received[Len(received)])
     /\ conn = "open")
        => (pc = "loop" /\ outcome = Running)

\* The end-of-stream marker is among the lines received.
DoneReceived == \E i \in 1..Len(received) : received[i] = DoneLine

\* How a completed stream ends: the generator returns.
Completed == Done /\ outcome = Return(PyNone)

\* C18: a streaming call completes without error when 'data: [DONE]' is
\* received, after which no later line is read and no chunk is yielded, and
\* when the connection closes orderly with no further lines; both also when
\* no chunk was yielded.
C18_DoneOrOrderlyCloseCompletes ==
    /\ [](DoneReceived => (received[Len(received)] = DoneLine /\ Completed))
    /\ [][/\ DoneReceived => (received' = received /\ yielded' = yielded)
          /\ (pc = "loop" /\ received' = Append(received, DoneLine)) =>
                (Completed' /\ yielded' = yielded)
          /\ (pc = "loop" /\ conn' = "released") =>
                (Completed' /\ yielded' = yielded /\ received' = received)]_vars

\* An empty stream completed by the end-of-stream marker, after a line that
\* carries no chunk.
C18_Witness ==
    /\ entry = "stream"
    /\ Len(received) = 2
    /\ DoneReceived
    /\ yielded = <<>>
    /\ Completed

(***************************************************************************)
(* MIME resolution of an in-memory attachment.  A name is the sequence of  *)
(* its dot-separated parts (<<"correct", "pdf">> is correct.pdf); content  *)
(* is the sequence of its bytes; an optional name is <<>> or <<name>>.     *)
(***************************************************************************)
\* The extension table: extension to MIME type.
ExtensionTable ==
    [e \in {"pdf", "jpg", "jpeg", "png", "gif", "txt", "json", "xml", "csv"} |->
        CASE e = "pdf" -> <<"application", "pdf">>
          [] e \in {"jpg", "jpeg"} -> <<"image", "jpeg">>
          [] e = "png" -> <<"image", "png">>
          [] e = "gif" -> <<"image", "gif">>
          [] e = "txt" -> <<"text", "plain">>
          [] e = "json" -> <<"application", "json">>
          [] e = "xml" -> <<"application", "xml">>
          [] e = "csv" -> <<"text", "csv">>]

\* The extension of a name: its last part when it has more than one, else none.
Extension(name) == IF Len(name) > 1 THEN <<name[Len(name)]>> ELSE <<>>

\* The MIME type of a name's extension: <<>> when there is no extension or
\* the table does not hold it.
MappedType(name) ==
    IF Extension(name) # <<>> /\ Extension(name)[1] \in DOMAIN ExtensionTable
    THEN <<ExtensionTable[Extension(name)[1]]>>
    ELSE <<>>

\* The magic signatures and their types.
MagicSignatures ==
    {[bytes |-> <<37, 80, 68, 70>>, type |-> <<"application", "pdf">>],
     [bytes |-> <<137, 80, 78, 71, 13, 10, 26, 10>>, type |-> <<"image", "png">>],
     [bytes |-> <<255, 216, 255>>, type |-> <<"image", "jpeg">>],
     [bytes |-> <<71, 73, 70, 56>>, type |-> <<"image", "gif">>],
     [bytes |-> <<80, 75, 3, 4>>, type |-> <<"application", "zip">>]}

StartsWith(content_bytes, prefix) ==
    /\ Len(prefix) <= Len(content_bytes)
    /\ SubSeq(content_bytes, 1, Len(prefix)) = prefix

\* Magic-byte sniffing: <<>> when no signature matches.
Sniff(content_bytes) ==
    LET hits == {m \in MagicSignatures : StartsWith(content_bytes, m.bytes)}
    IN  IF hits = {} THEN <<>> ELSE <<(CHOOSE m \in hits : TRUE).type>>

DEFAULT_MIME_TYPE == <<"application", "octet-stream">>
DEFAULT_FILENAME == <<"upload", "bin">>

\* The name the type is looked up from: the explicit filename if given, else
\* the attached name, else the default filename.
HintedName(explicit_filename, attached_name) ==
    IF explicit_filename # <<>> THEN explicit_filename[1]
    ELSE IF attached_name # <<>> THEN attached_name[1]
    ELSE DEFAULT_FILENAME

\* A resolver in which a magic signature overrides the name's extension.
ResolveSniffFirst(explicit_filename, attached_name, content_bytes) ==
    LET mapped == MappedType(HintedName(explicit_filename, attached_name))
    IN  IF Sniff(content_bytes) # <<>> THEN Sniff(content_bytes)[1]
        ELSE IF mapped # <<>> THEN mapped[1]
        ELSE DEFAULT_MIME_TYPE

\* resolve(explicit_filename, attached_name, content_bytes) -> mime_type
resolve(explicit_filename, attached_name, content_bytes) ==
    LET mapped == MappedType(HintedName(explicit_filename, attached_name))
    IN  IF mapped # <<>> THEN mapped[1]
        ELSE IF Sniff(content_bytes) # <<>> THEN Sniff(content_bytes)[1]
        ELSE DEFAULT_MIME_TYPE

\* The names and contents resolved.
ExplicitFilenames ==
    {<<>>, <<<<"correct", "pdf">>>>, <<<<"correct_type", "pdf">>>>,
     <<<<"photo", "jpeg">>>>, <<<<"archive", "tar", "xyz">>>>,
     <<<<"document">>>>, <<<<"notes", "txt">>>>}
AttachedNames ==
    {<<>>, <<<<"wrong", "txt">>>>, <<<<"wrong_extension", "txt">>>>,
     <<<<"photo", "png">>>>, <<<<"data", "bin">>>>, <<<<"report", "pdf">>>>}
Contents ==
    {<<>>,
     <<100, 97, 116, 97>>,                       \* b"data"
     <<37, 80, 68, 70, 45, 49, 46, 52>>,         \* b"%PDF-1.4"
     <<137, 80, 78, 71, 13, 10, 26, 10, 0>>,     \* a PNG header
     <<255, 216, 255, 224>>,                     \* a JPEG header
     <<71, 73, 70, 56, 57, 97>>,                 \* b"GIF89a"
     <<80, 75, 3, 4, 20>>}                       \* a ZIP header

Resolution(explicit_filename, attached_name, content_bytes) ==
    [explicit_filename |-> explicit_filename, attached_name |-> attached_name,
     content_bytes |-> content_bytes, mime_type |-> <<>>]

\* A provider, and an attachment about to be resolved.
MimeInit ==
    /\ ProviderInit
    /\ mime \in {<<Resolution(f, n, b)>> :
                    f \in ExplicitFilenames, n \in AttachedNames, b \in Contents}
    /\ sig = <<>>

\* The attachment's MIME type is resolved.
Resolve ==
    /\ mime # <<>>
    /\ mime[1].mime_type = <<>>
    /\ mime' = <<[mime[1] EXCEPT !.mime_type =
                    <<resolve(mime[1].explicit_filename, mime[1].attached_name,
                              mime[1].content_bytes)>>]>>
    /\ UNCHANGED <<api_key, config, entry, pc, http, response, conn, peer,
                   received, ci, chunks_received, yielded, logged, outcome,
                   text, args, other, sig>>

MimeNext == Resolve

MimeSpec == MimeInit /\ [][MimeNext]_vars

\* A MIME type was resolved.
Resolved == mime # <<>> /\ mime[1].mime_type # <<>>

\* The last part of a name of several parts is an extension the table holds.
HasMappedExtension(name) ==
    /\ Len(name) > 1
    /\ name[Len(name)] \in
          {"pdf", "jpg", "jpeg", "png", "gif", "txt", "json", "xml", "csv"}

\* C15: MIME resolution follows strict precedence: when the explicit filename
\* has an extension of the mapping table, its type is the result whatever the
\* attached name and the magic bytes are; and the attached name is used only
\* when no explicit filename is given: with an explicit filename the result
\* is the one resolved with no attached name at all.
C15_ExplicitFilenameWins ==
    (Resolved /\ mime[1].explicit_filename # <<>>) =>
        LET filename == mime[1].explicit_filename[1]
            mime_type == mime[1].mime_type[1]
        IN  /\ HasMappedExtension(filename) =>
                  mime_type = ExtensionTable[filename[Len(filename)]]
            /\ mime_type = resolve(<<filename>>, <<>>, mime[1].content_bytes)
            /\ (~HasMappedExtension(filename) /\ mime[1].attached_name # <<>>
                /\ Sniff(mime[1].content_bytes) = <<>>) =>
                  mime_type = DEFAULT_MIME_TYPE

\* bytes b"data", attached name wrong.txt, filename correct.pdf: resolved to
\* application/pdf.
C15_Witness ==
    /\ Resolved
    /\ mime[1].explicit_filename = <<<<"correct", "pdf">>>>
    /\ mime[1].attached_name = <<<<"wrong", "txt">>>>
    /\ mime[1].content_bytes = <<100, 97, 116, 97>>
    /\ mime[1].mime_type = <<<<"application", "pdf">>>>

(***************************************************************************)
(* Request signing.  A field set gives each of provider, message, model,   *)
(* user_id and org_id as <<>> (missing) or <<text>>.                       *)
(***************************************************************************)
FieldNames == <<"provider", "message", "model", "user_id", "org_id">>

\* Text of the field values in order, joined by a separator, a missing field
\* as the empty text.
JoinedValues(fields) ==
    LET Value(name) == IF fields[name] = <<>> THEN "" ELSE fields[name][1]
    IN  Value("provider") \o "|" \o Value("message") \o "|" \o Value("model")
        \o "|" \o Value("user_id") \o "|" \o Value("org_id")

\* One field of the canonical string: its name, then "-" when it is missing
\* or the length of its value and the value.
CanonicalField(fields, name) ==
    name \o "="
    \o (IF fields[name] = <<>> THEN "-"
        ELSE ToString(Len(fields[name][1])) \o ":" \o fields[name][1])
    \o ";"

\* The canonical string of a field set: its fields in the fixed order.
Canonicalize(fields) ==
    CanonicalField(fields, FieldNames[1]) \o CanonicalField(fields, FieldNames[2])
    \o CanonicalField(fields, FieldNames[3]) \o CanonicalField(fields, FieldNames[4])
    \o CanonicalField(fields, FieldNames[5])

\* HMAC-SHA256 as an ideal keyed hash: equal only on equal key and text.
HmacSha256(secret_key, canonical) ==
    [mac |-> "HMAC-SHA256", key |-> secret_key, text |-> canonical]

\* RequestSigner.sign_request
sign_request(secret_key, fields) == HmacSha256(secret_key, Canonicalize(fields))

\* RequestSigner.verify_signature: the signature recomputed and compared
verify_signature(secret_key, signature, fields) ==
    signature = sign_request(secret_key, fields)

SecretKeys == {"super-secret-key-12345", "deployment-secret-key"}
FieldSets ==
    [provider : {<<"openai">>, <<"gemini">>},
     message  : {<<"Analyze my data">>, <<"Different message">>, <<"a">>, <<"a|b">>},
     model    : {<<"gpt-4o">>, <<"b|gpt-4o">>},
     user_id  : {<<>>, <<"">>, <<"user_123">>},
     org_id   : {<<>>, <<"org_456">>}]

Signing(secret_key, fields, presented) ==
    [secret_key |-> secret_key, fields |-> fields, presented |-> presented,
     signature |-> <<>>, is_valid |-> <<>>]

\* A signer, the fields to sign and the fields later presented with the
\* signature.
SignInit ==
    /\ ProviderInit
    /\ api_key = "sk-A"
    /\ config.model = "gpt-4o"
    /\ mime = <<>>
    /\ sig \in {<<Signing(k, f, g)>> : k \in SecretKeys, f \in FieldSets, g \in FieldSets}

\* signer.sign_request(**fields)
SignRequest ==
    /\ sig # <<>>
    /\ sig[1].signature = <<>>
    /\ sig' = <<[sig[1] EXCEPT !.signature =
                    <<sign_request(sig[1].secret_key, sig[1].fields)>>]>>
    /\ UNCHANGED <<api_key, config, entry, pc, http, response, conn, peer,
                   received, ci, chunks_received, yielded, logged, outcome,
                   text, args, other, mime>>

\* signer.verify_signature(signature=signature, **presented)
VerifySignature ==
    /\ sig # <<>>
    /\ sig[1].signature # <<>>
    /\ sig[1].is_valid = <<>>
    /\ sig' = <<[sig[1] EXCEPT !.is_valid =
                    <<verify_signature(sig[1].secret_key, sig[1].signature[1],
                                       sig[1].presented)>>]>>
    /\ UNCHANGED <<api_key, config, entry, pc, http, response, conn, peer,
                   received, ci, chunks_received, yielded, logged, outcome,
                   text, args, other, mime>>

SignNext == SignRequest \/ VerifySignature

SignSpec == SignInit /\ [][SignNext]_vars

\* The signature was verified against the presented fields.
Verified == sig # <<>> /\ sig[1].is_valid # <<>>

\* C16: for every secret key and every two field sets, verifying the signature
\* of the first against the second under the same key succeeds exactly when
\* the two field sets are equal.
C16_VerifiesExactlyTheSignedFields ==
    Verified => (sig[1].is_valid[1] <=> (sig[1].presented = sig[1].fields))

\* The signature of one request presented with a different message and
\* rejected.
C16_Witness ==
    /\ Verified
    /\ sig[1].fields.message = <<"Analyze my data">>
    /\ sig[1].presented = [sig[1].fields EXCEPT !.message = <<"Different message">>]
    /\ sig[1].is_valid = <<FALSE>>

(***************************************************************************)
(* Two invocations on one provider.  The second is a query() whose steps   *)
(* interleave with those of the first in any order.                        *)
(***************************************************************************)
\* The lines the first invocation reads while a second one runs.
MaxConcurrentLines == 1

\* The state of the first invocation.
invocation == <<entry, pc, http, response, conn, peer, received, ci,
                chunks_received, yielded, logged, outcome, text, args>>

\* A query() that leaves its own max_tokens in the provider's configuration.
OtherQueryCallWritingConfig(prompt, system_instruction, file_data) ==
    /\ other.pc = "idle"
    /\ other' = [pc |-> "posting",
                 args |-> <<Arguments(prompt, system_instruction, file_data)>>,
                 http |-> <<Request(_build_headers(api_key),
                                    _build_payload(config, prompt,
                                                   system_instruction, file_data, FALSE),
                                    FALSE)>>,
                 outcome |-> Running]
    /\ config' = [config EXCEPT !.max_tokens = 1]
    /\ UNCHANGED <<invocation, api_key, mime, sig>>

\* the second query() up to its requests.post
OtherQueryCall(prompt, system_instruction, file_data) ==
    /\ other.pc = "idle"
    /\ other' = [pc |-> "posting",
                 args |-> <<Arguments(prompt, system_instruction, file_data)>>,
                 http |-> <<Request(_build_headers(api_key),
                                    _build_payload(config, prompt,
                                                   system_instruction, file_data, FALSE),
                                    FALSE)>>,
                 outcome |-> Running]
    /\ UNCHANGED <<invocation, api_key, config, mime, sig>>

\* its requests.post raises
OtherPostFails ==
    /\ other.pc = "posting"
    /\ other' = [pc |-> "done", args |-> <<>>, http |-> <<>>,
                 outcome |-> RequestFailed]
    /\ UNCHANGED <<invocation, api_key, config, mime, sig>>

\* its requests.post returns, and query() runs to its end
OtherQueryResponse(status, body) ==
    /\ other.pc = "posting"
    /\ other' = [pc |-> "done", args |-> <<>>, http |-> <<>>,
                 outcome |-> IF ~ResponseOk(status) THEN StatusError(status, body)
                             ELSE ResponseJson(body)]
    /\ UNCHANGED <<invocation, api_key, config, mime, sig>>

ConcurrentNext ==
    \/ Next /\ Len(received') <= MaxConcurrentLines
    \/ \E p \in Prompts, s \in SystemInstructions, f \in FileDatas :
          OtherQueryCall(p, s, f)
    \/ OtherPostFails
    \/ \E st \in Statuses, b \in Bodies : OtherQueryResponse(st, b)

ConcurrentSpec == Init /\ [][ConcurrentNext]_vars

\* C14: invocations on the same provider share no mutable state: no step of
\* any invocation changes the provider's api_key or config; a step of one
\* invocation leaves the request, response, received lines, yielded chunks
\* and outcome of the other as they were; and the request either has in
\* flight is the one built from its own arguments.
C14_InvocationsShareNoMutableState ==
    /\ [][api_key' = api_key /\ config' = config]_vars
    /\ [][(other' # other) => (invocation' = invocation)]_vars
    /\ [][(invocation' # invocation) => (other' = other)]_vars
    /\ [](InFlight =>
            /\ http[1].headers = _build_headers(api_key)
            /\ http[1].data =
                  _build_payload(config, args[1].prompt, args[1].system_instruction,
                                 args[1].file_data, entry = "stream"))
    /\ [](other.http # <<>> =>
            /\ other.http[1].headers = _build_headers(api_key)
            /\ other.http[1].data =
                  _build_payload(config, other.args[1].prompt,
                                 other.args[1].system_instruction,
                                 other.args[1].file_data, FALSE))

\* A stream has yielded a chunk of its own response while a query() with
\* other arguments has its request in flight.
C14_Witness ==
    /\ entry = "stream"
    /\ pc = "yielded"
    /\ yielded # <<>>
    /\ other.pc = "posting"
    /\ other.args[1].prompt = ""

====
